---- MODULE Spec2Model ----
(***************************************************************************)
(* microf: the action pipeline (accept / process), the dispatcher (run)    *)
(* and the SLURM array-job generator (submit_to_slurm) of                  *)
(* src/microf/__main__.py.                                                 *)
(*                                                                         *)
(* File names, patterns and commands are TLA+ strings; a character is a    *)
(* string of length one, Ch(s, i).  Recursive definitions walk an index    *)
(* over a short argument, and With names a value that is used more than    *)
(* once: both keep the evaluation linear and shallow.                      *)
(***************************************************************************)
EXTENDS Integers, Sequences, FiniteSets, TLC

(***************************************************************************)
(* Strings                                                                 *)
(***************************************************************************)
Ch(s, i) == SubSeq(s, i, i)

\* Body applied to the value of x
With(x, Body(_)) == CHOOSE v \in {Body(r) : r \in {x}} : TRUE

UpperLetters == "ABCDEFGHIJKLMNOPQRSTUVWXYZ"
LowerLetters == "abcdefghijklmnopqrstuvwxyz"
Digits == "0123456789"
Punctuation == "_.- ()/*'"

CharsOf(s) == {Ch(s, i) : i \in 1..Len(s)}

\* the characters file names and patterns of the model are written in
AnyChar == CharsOf(UpperLetters) \cup CharsOf(LowerLetters) \cup CharsOf(Digits)
             \cup CharsOf(Punctuation)

IndexIn(s, c) == CHOOSE i \in 1..Len(s) : Ch(s, i) = c

\* str.lower() of one character
LowerCh(c) ==
  IF c \in CharsOf(UpperLetters) THEN Ch(LowerLetters, IndexIn(UpperLetters, c)) ELSE c

UpperCh(c) ==
  IF c \in CharsOf(LowerLetters) THEN Ch(UpperLetters, IndexIn(LowerLetters, c)) ELSE c

RECURSIVE lower_from(_, _)
lower_from(s, i) == IF i > Len(s) THEN "" ELSE LowerCh(Ch(s, i)) \o lower_from(s, i + 1)

\* str.lower()
lower(s) == lower_from(s, 1)

\* str.count(c)
count(s, c) == Cardinality({i \in 1..Len(s) : Ch(s, i) = c})

\* str.rfind(c): the last index of c in s, 0 when there is none
rfind(s, c) ==
  LET I == {i \in 1..Len(s) : Ch(s, i) = c}
  IN IF I = {} THEN 0 ELSE CHOOSE i \in I : \A j \in I : j <= i

\* the parts of s that the separators at the indices I delimit
split_at(s, I) ==
  LET nth(k) == IF k = 0 THEN 0
                ELSE IF k > Cardinality(I) THEN Len(s) + 1
                ELSE CHOOSE i \in I : Cardinality({j \in I : j < i}) = k - 1
  IN [k \in 1..(Cardinality(I) + 1) |-> SubSeq(s, nth(k - 1) + 1, nth(k) - 1)]

\* str.split(c)
split(s, c) == With({i \in 1..Len(s) : Ch(s, i) = c}, LAMBDA I : split_at(s, I))

RECURSIVE join_from(_, _, _)
join_from(sep, parts, i) ==
  IF i > Len(parts) THEN ""
  ELSE IF i = Len(parts) THEN parts[i]
  ELSE parts[i] \o sep \o join_from(sep, parts, i + 1)

\* sep.join(parts)
join(sep, parts) == join_from(sep, parts, 1)

\* os.path.basename
basename(p) == SubSeq(p, rfind(p, "/") + 1, Len(p))

\* os.path.splitext: the extension starts at the last dot of the last path
\* component, unless only dots precede it in that component
splitext(p) ==
  LET sepIndex == rfind(p, "/")
      dotIndex == rfind(p, ".")
  IN IF dotIndex > sepIndex
        /\ \E k \in (sepIndex + 1)..(dotIndex - 1) : Ch(p, k) # "."
     THEN <<SubSeq(p, 1, dotIndex - 1), SubSeq(p, dotIndex, Len(p))>>
     ELSE <<p, "">>

\* str(int) for n >= 0
RECURSIVE str(_)
str(n) ==
  With(n, LAMBDA v : IF v < 10 THEN Ch(Digits, v + 1)
                     ELSE str(v \div 10) \o Ch(Digits, (v % 10) + 1))

\* the number written by the first i digits of s
RECURSIVE int_upto(_, _)
int_upto(s, i) ==
  IF i = 0 THEN 0 ELSE 10 * int_upto(s, i - 1) + (IndexIn(Digits, Ch(s, i)) - 1)

\* int(s) for a string of digits
int(s) == int_upto(s, Len(s))

\* format(n, '0<width>d')
RECURSIVE zeroPad(_, _)
zeroPad(s, width) == IF Len(s) >= width THEN s ELSE zeroPad("0" \o s, width)

EmptyMap == [x \in {} |-> ""]

(***************************************************************************)
(* Regular expressions, as re.match runs them.  A pattern is a sequence of *)
(* elements: a text (one set of characters for each of its characters), or *)
(* a set of characters repeated min times (many = FALSE) or min times and  *)
(* more (many = TRUE, greedy), possibly a named group.  The match starts   *)
(* at the first character and need not reach the last.                     *)
(***************************************************************************)
Text(sets) ==
  [kind |-> "text", sets |-> sets, set |-> {}, min |-> 0, many |-> FALSE, grp |-> ""]
Repeat(set, min, many, grp) ==
  [kind |-> "repeat", sets |-> <<>>, set |-> set, min |-> min, many |-> many, grp |-> grp]

\* the number of characters of s from pos on that are in set
run_length(s, pos, set) ==
  CHOOSE len \in 0..(Len(s) - pos + 1) :
    /\ \A j \in 0..(len - 1) : Ch(s, pos + j) \in set
    /\ len = Len(s) - pos + 1 \/ Ch(s, pos + len) \notin set

\* the numbers of characters that element e alone can take at pos
counts(e, s, pos) ==
  IF e.kind = "text"
  THEN IF /\ pos + Len(e.sets) - 1 <= Len(s)
          /\ \A j \in 1..Len(e.sets) : Ch(s, pos + j - 1) \in e.sets[j]
       THEN {Len(e.sets)} ELSE {}
  ELSE With(run_length(s, pos, e.set),
            LAMBDA avail : IF e.many THEN e.min..avail
                           ELSE IF avail >= e.min THEN {e.min} ELSE {})

Max(S) == CHOOSE x \in S : \A y \in S : y <= x

NoMatch == [ok |-> FALSE, caps |-> EmptyMap, end |-> 0]

\* the match of pat[k], pat[k+1], ... at pos: the longest take of pat[k] with
\* which the rest matches
RECURSIVE match_at(_, _, _, _)
match_at(pat, k, s, pos) ==
  IF k > Len(pat) THEN [ok |-> TRUE, caps |-> EmptyMap, end |-> pos - 1]
  ELSE With([len \in counts(pat[k], s, pos) |-> match_at(pat, k + 1, s, pos + len)],
            LAMBDA rest :
              IF \A len \in DOMAIN rest : ~rest[len].ok THEN NoMatch
              ELSE With(Max({len \in DOMAIN rest : rest[len].ok}),
                        LAMBDA len :
                          [rest[len] EXCEPT
                             !.caps = IF pat[k].grp # ""
                                      THEN (pat[k].grp :> SubSeq(s, pos, pos + len - 1)) @@ @
                                      ELSE @]))

\* pattern.match(s)
re_match(pat, s) == match_at(pat, 1, s, 1)

(***************************************************************************)
(* Format strings: a sequence of parts, a literal text (key = "") or a     *)
(* replacement field {key}.                                                *)
(***************************************************************************)
T(text) == [key |-> "", lit |-> text]
F(key) == [key |-> key, lit |-> ""]

\* fmt.format(**state), for fields whose values are strings
format(fmt, state) ==
  join("", [i \in 1..Len(fmt) |-> IF fmt[i].key = "" THEN fmt[i].lit ELSE state[fmt[i].key]])

(***************************************************************************)
(* Actions                                                                 *)
(***************************************************************************)
\* what accept() does: return (new, params), or raise (a message is written
\* without the back quotes the source puts around names)
Accepted(new, params) == [res |-> "ok", new |-> new, params |-> params, msg |-> ""]
Raise(exc, msg) == [res |-> exc, new |-> "", params |-> EmptyMap, msg |-> msg]

\* Action.accept, inherited by Mention, NewName and Remove
Action_accept(filename) == Accepted(filename, EmptyMap)

Mention_process(fmts, state) == Append(fmts, <<T("# '"), F("old"), T("' -> '"), F("new"), T("'")>>)

NewName_process(fmts, state) ==
  IF state["old"] # state["new"]
  THEN Append(fmts, <<T("ln -f '"), F("old"), T("' '"), F("new"), T("'")>>)
  ELSE fmts

Remove_process(fmts, state) ==
  IF ~state["keep"] THEN Append(fmts, <<T("rm -f '"), F("old"), T("'")>>) ELSE fmts

TiffToPng_process(fmts, state) ==
  Append(fmts, <<T("convert -depth 16 -colorspace gray '"), F("old"), T("' '"), F("new"), T("'")>>)

\* the list as Python reads it: '.jpeg' '.png' are adjacent literals, one string
ImageExtensions == {".jpg", ".jpeg" \o ".png", ".tiff", ".tif"}

split_image_extension(filename) ==
  LET se == splitext(filename)
  IN IF lower(se[2]) \in ImageExtensions THEN se ELSE <<filename, "">>

\* (?P<grp>.*)
Star(grp) == Repeat(AnyChar, 0, TRUE, grp)

\* re.escape: every character stands for itself
escape(s) == Text([i \in 1..Len(s) |-> {Ch(s, i)}])

\* text put into the regular expression as it is: a dot matches any character
\* (the other characters of the model's patterns have no special meaning)
unescaped(s) == Text([i \in 1..Len(s) |-> IF Ch(s, i) = "." THEN AnyChar ELSE {Ch(s, i)}])

RECURSIVE star_re(_, _)
star_re(parts, n) ==
  IF n >= Len(parts) THEN <<>>
  ELSE <<escape(parts[n]), Star("wildcard" \o str(n - 1))>> \o star_re(parts, n + 1)

\* Rename._make_filename_re
make_filename_re(glob_pattern) ==
  LET se == split_image_extension(glob_pattern)
      parts == split(se[1], "*")
  IN star_re(parts, 1) \o <<unescaped(parts[Len(parts)] \o se[2])>>

RECURSIVE star_fmt(_, _)
star_fmt(parts, n) ==
  IF n >= Len(parts) THEN <<>>
  ELSE <<T(parts[n]), F("wildcard" \o str(n - 1))>> \o star_fmt(parts, n + 1)

\* Rename._make_filename_fmt
make_filename_fmt(glob_pattern) ==
  LET se == split_image_extension(glob_pattern)
      parts == split(se[1], "*")
  IN star_fmt(parts, 1) \o <<T(parts[Len(parts)] \o se[2])>>

\* Rename.__init__ raises when the wildcard counts differ
Rename_init_ok(opts) ==
  \/ opts.from_pattern = "" \/ opts.to_pattern = ""
  \/ count(opts.from_pattern, "*") = count(opts.to_pattern, "*")

\* Rename.accept; without patterns __init__ has set _from_pattern, and the
\* read of from_pattern fails
Rename_accept(opts, filename) ==
  IF opts.from_pattern = "" \/ opts.to_pattern = ""
  THEN Raise("AttributeError", "'Rename' object has no attribute 'from_pattern'")
  ELSE
  With(re_match(make_filename_re(opts.from_pattern), filename),
       LAMBDA match :
         IF ~match.ok
         THEN Raise("Reject", "File name " \o filename
                                \o " does not match pattern provided with --from-pattern")
         ELSE Accepted(format(make_filename_fmt(opts.to_pattern), match.caps), match.caps))

\* TiffToPng.accept without the lower() of the extension
TiffToPng_accept_case_sensitive(filename) ==
  LET se == splitext(filename)
  IN IF se[2] \in {".tif", ".tiff"}
     THEN Accepted(se[1] \o ".png", EmptyMap)
     ELSE Raise("Reject", "not a TIFF file")

TiffToPng_accept(filename) ==
  LET se == splitext(filename)
  IN IF lower(se[2]) \in {".tif", ".tiff"}
     THEN Accepted(se[1] \o ".png", EmptyMap)
     ELSE Raise("Reject", "not a TIFF file")

\* a literal text of a pattern compiled with re.I
LitI(s) == Text([i \in 1..Len(s) |-> {LowerCh(Ch(s, i)), UpperCh(Ch(s, i))}])

Letters == CharsOf(UpperLetters) \cup CharsOf(LowerLetters)

ic6000_pattern ==
  <<Repeat(CharsOf(Digits), 8, FALSE, "date"), LitI("_"),
    Repeat(AnyChar \ {"_"}, 1, TRUE, "name"), LitI("_"),
    Repeat(Letters, 1, TRUE, "well_letter"), LitI(" - "),
    Repeat(CharsOf(Digits), 1, TRUE, "well_nr"), LitI("(fld "),
    Repeat(CharsOf(Digits), 1, TRUE, "site"), LitI(" wv "),
    Repeat(Letters, 1, TRUE, "channel_color"), LitI(" - "),
    Repeat(AnyChar, 1, TRUE, "channel_tag"), LitI(").")>>

ic6000_channels == ("DAPI" :> 1) @@ ("FITC" :> 2) @@ ("dsRed" :> 3) @@ ("Cy5" :> 4)

cv7000_fmt(md) ==
  md["experiment_name"] \o "_" \o md["well_letter"] \o zeroPad(str(md["well_nr"]), 2)
    \o "_T0001F" \o zeroPad(str(md["site"]), 3) \o "L01A01Z01C"
    \o zeroPad(str(md["channel"]), 2) \o ".tif"

\* IC6kToCV7k.accept with an unknown channel tag taken for a file to skip
IC6kToCV7k_accept_skipping(filename) ==
  With(re_match(ic6000_pattern, filename),
       LAMBDA match :
         IF ~match.ok \/ match.caps["channel_tag"] \notin DOMAIN ic6000_channels
         THEN Raise("Reject", "file name does not match the configured IC6000 pattern")
         ELSE With(("experiment_name" :> (match.caps["date"] \o "_" \o match.caps["name"]))
                     @@ ("well_letter" :> match.caps["well_letter"])
                     @@ ("well_nr" :> int(match.caps["well_nr"]))
                     @@ ("site" :> int(match.caps["site"]))
                     @@ ("channel" :> ic6000_channels[match.caps["channel_tag"]]),
                   LAMBDA new_md : Accepted(cv7000_fmt(new_md), new_md)))

IC6kToCV7k_accept(filename) ==
  With(re_match(ic6000_pattern, filename),
       LAMBDA match :
         IF ~match.ok
         THEN Raise("Reject", "file name does not match the configured IC6000 pattern")
         ELSE IF match.caps["channel_tag"] \notin DOMAIN ic6000_channels
         THEN \* KeyError, caught and raised again as RuntimeError
              Raise("RuntimeError", "Cannot parse file name " \o filename
                                      \o " with IC6000 pattern: '"
                                      \o match.caps["channel_tag"] \o "'")
         ELSE With(("experiment_name" :> (match.caps["date"] \o "_" \o match.caps["name"]))
                     @@ ("well_letter" :> match.caps["well_letter"])
                     @@ ("well_nr" :> int(match.caps["well_nr"]))
                     @@ ("site" :> int(match.caps["site"]))
                     @@ ("channel" :> ic6000_channels[match.caps["channel_tag"]]),
                   LAMBDA new_md : Accepted(cv7000_fmt(new_md), new_md)))

\* action.accept(filename), by the class of the action
accept(action, opts, filename) ==
  CASE action = "IC6kToCV7k" -> IC6kToCV7k_accept(filename)
    [] action = "Rename" -> Rename_accept(opts, filename)
    [] action = "TiffToPng" -> TiffToPng_accept(filename)
    [] OTHER -> Action_accept(filename)

\* action.process(fmts, **state), by the class of the action
process(action, fmts, state) ==
  CASE action = "Mention" -> Mention_process(fmts, state)
    [] action = "NewName" -> NewName_process(fmts, state)
    [] action = "Remove" -> Remove_process(fmts, state)
    [] action = "TiffToPng" -> TiffToPng_process(fmts, state)
    [] OTHER -> fmts

(***************************************************************************)
(* Bounds of the model, and the files it runs on                           *)
(***************************************************************************)
\* the largest number of path arguments on the command line
MaxPaths == 2
\* the largest --batch-size given explicitly
MaxBatchSize == 2
\* the longest command list handed to submit_to_slurm directly
MaxCmds == 4
\* the largest size handed to submit_to_slurm directly
MaxSize == 3

\* --batch-size, default
DefaultBatchSize == 200

cwd == "/w"

GoodIC6000 == "20180328_T_G - 8(fld 4 wv Red - Cy5).tif"
BadIC6000 == "20180328_T_G - 8(fld 4 wv Red - XYZ).tif"

\* the regular files and the directories that exist
Files == {"/w/a.tif", "/w/b.txt", "/w/img_42_ch3.tif", "/w/d/a.tif",
          "/w/" \o GoodIC6000, "/w/" \o BadIC6000,
          "/w/c.png", "/w/e.TIF", "/w/f.tiff"}
Directories == {"/w", "/w/d"}

\* os.walk of the one directory given as a path
listdir_recursive(path) == IF path = "/w/d" THEN <<"/w/d/a.tif">> ELSE <<>>

\* the path arguments: names relative to cwd, one of them missing, one a directory
PathArgs == {"a.tif", "b.txt", "img_42_ch3.tif", "d", "nofile.tif", GoodIC6000, BadIC6000}

\* --from-pattern / --to-pattern
PatternArgs == {<<"", "">>, <<"img_*_ch*", "sample_*_channel*">>, <<"2018*C*", "s*c*">>,
                <<"img_*", "out">>, <<"img_*", "">>}

SeqsUpTo(S, lo, hi) == UNION {[1..k -> S] : k \in lo..hi}

\* nargs='+': one path at least; the first may be the word convert or rename
PathLists ==
  SeqsUpTo(PathArgs, 1, MaxPaths)
    \cup {<<verb>> \o rest : verb \in {"convert", "rename"},
                             rest \in SeqsUpTo(PathArgs, 0, MaxPaths - 1)}

(***************************************************************************)
(* Utility functions                                                       *)
(***************************************************************************)
isabs(path) == path # "" /\ Ch(path, 1) = "/"
abspath(path) == IF isabs(path) THEN path ELSE cwd \o "/" \o path
exists(path) == abspath(path) \in Files \cup Directories
isdir(path) == abspath(path) \in Directories

RECURSIVE path_list_from(_, _)
path_list_from(paths, i) ==
  IF i > Len(paths) THEN <<>>
  ELSE (IF ~exists(paths[i]) THEN <<>>
        ELSE IF isdir(abspath(paths[i])) THEN listdir_recursive(abspath(paths[i]))
        ELSE <<abspath(paths[i])>>)
         \o path_list_from(paths, i + 1)

build_path_list(paths) == path_list_from(paths, 1)

\* an item of an izip_longest tuple: a value, or the fill value None
Some(x) == <<x>>
None == <<>>

\* the tuples izip_longest makes of the items that follow the first `taken`
RECURSIVE grouper_from(_, _, _)
grouper_from(iterable, size, taken) ==
  IF taken >= Len(iterable) THEN <<>>
  ELSE <<[j \in 1..size |-> IF taken + j <= Len(iterable) THEN Some(iterable[taken + j])
                                                          ELSE None]>>
         \o grouper_from(iterable, size, taken + size)

grouper(iterable, size) == grouper_from(iterable, size, 0)

xor(a, b) == (a # "") # (b # "")

\* run() with the test of batch put before the test of just_print
run_mode_batch_first(just_print, batch) ==
  IF batch # 0 THEN "submit" ELSE IF just_print THEN "print" ELSE "immediate"

\* which branch run() takes
run_mode(just_print, batch) ==
  IF just_print THEN "print" ELSE IF batch # 0 THEN "submit" ELSE "immediate"

\* the commands /bin/sh finds in a command string: the lines that are not comments
sh_commands(cmd) == SelectSeq(split(cmd, "\n"), LAMBDA l : l # "" /\ Ch(l, 1) # "#")

\* the exit status of sh -c cmd, codes being the exit status of each command:
\* every command is run, the status is the last one's
sh_status(codes) == IF codes = <<>> THEN 0 ELSE codes[Len(codes)]

\* check_call raises CalledProcessError on a non-zero status
check_call_ok(codes) == sh_status(codes) = 0

\* the loop over a batch without its test for None
script_cmds_padded(batch) ==
  [i \in 1..Len(batch) |-> IF batch[i] = None THEN "None" ELSE batch[i][1]]

\* the lines written to batch script n: the commands up to the first None
RECURSIVE script_cmds_from(_, _)
script_cmds_from(batch, i) ==
  IF i > Len(batch) \/ batch[i] = None THEN <<>>
  ELSE <<batch[i][1]>> \o script_cmds_from(batch, i + 1)

script_cmds(batch) == script_cmds_from(batch, 1)

prefix == "process."
JobDir == cwd \o "/" \o prefix \o "XXXXXX.d"

array_task_job(n) == JobDir \o "/" \o prefix \o str(n) \o ".sh"

\* a batch script whose cleanup removes the script of index 0, not its own
batch_script_rm_first(n, batch) ==
  [path |-> array_task_job(n),
   head |-> <<"set -e -x">>,
   cmds |-> script_cmds(batch),
   tail |-> <<"rm -f " \o array_task_job(0),
              "rmdir -v --ignore-fail-on-non-empty " \o array_task_job(0),
              "exit 0">>]

batch_script(n, batch) ==
  [path |-> array_task_job(n),
   head |-> <<"set -e -x">>,
   cmds |-> script_cmds(batch),
   tail |-> <<"rm -f " \o array_task_job(n),
              "rmdir -v --ignore-fail-on-non-empty " \o array_task_job(n),
              "exit 0">>]

(***************************************************************************)
(* The batch scripts as /bin/sh runs them                                  *)
(***************************************************************************)
\* a task of the array job before it starts: ip is the line its shell is at,
\* errexit the option -e, ran the lines run with their exit statuses
new_task == [state |-> "pending", ip |-> 1, errexit |-> FALSE, status |-> <<>>, ran |-> <<>>]

StartsWith(s, pre) == Len(s) >= Len(pre) /\ SubSeq(s, 1, Len(pre)) = pre
After(s, pre) == SubSeq(s, Len(pre) + 1, Len(s))

RECURSIVE cmd_lines_from(_, _)
cmd_lines_from(cs, k) ==
  IF k > Len(cs) THEN <<>> ELSE sh_commands(cs[k]) \o cmd_lines_from(cs, k + 1)

\* the lines of a batch script that are commands, in the order of the file
script_lines(script) == script.head \o cmd_lines_from(script.cmds, 1) \o script.tail

\* what one line does: its exit status, whether it sets -e, whether it ends
\* the shell, and the paths it removes
Outcome(code, seterr, exit, rm) == [code |-> code, seterr |-> seterr, exit |-> exit, rm |-> rm]

\* rm -f target: a missing target is no error, a directory is one
rm_f(target, files, dirs) ==
  IF target \in dirs THEN Outcome(1, FALSE, FALSE, {})
  ELSE Outcome(0, FALSE, FALSE, {target} \cap files)

\* rmdir --ignore-fail-on-non-empty target: only a directory that is not
\* empty is forgiven
rmdir_ignore_non_empty(target, dirs, empty) ==
  IF target \notin dirs THEN Outcome(1, FALSE, FALSE, {})
  ELSE IF target \in empty THEN Outcome(0, FALSE, FALSE, {target})
  ELSE Outcome(0, FALSE, FALSE, {})

\* the outcomes of one line, given the files, the directories and the empty
\* directories there are; a command the model knows nothing of may exit 0 or 1
sh_run(line, files, dirs, empty) ==
  IF line = "set -e -x" THEN {Outcome(0, TRUE, FALSE, {})}
  ELSE IF line = "exit 0" THEN {Outcome(0, FALSE, TRUE, {})}
  ELSE IF StartsWith(line, "rm -f ")
  THEN {rm_f(After(line, "rm -f "), files, dirs)}
  ELSE IF StartsWith(line, "rmdir -v --ignore-fail-on-non-empty ")
  THEN {rmdir_ignore_non_empty(After(line, "rmdir -v --ignore-fail-on-non-empty "),
                               dirs, empty)}
  ELSE IF line = "true" THEN {Outcome(0, FALSE, FALSE, {})}
  ELSE IF line = "false" THEN {Outcome(1, FALSE, FALSE, {})}
  ELSE {Outcome(code, FALSE, FALSE, {}) : code \in {0, 1}}

\* the shell after a line with outcome o: it ends at exit, at a failure under
\* -e, and at the end of the script, with the status of the last line
sh_step(t, lines, o) ==
  [t EXCEPT
     !.ran = Append(@, [line |-> lines[t.ip], code |-> o.code]),
     !.errexit = @ \/ o.seterr,
     !.ip = @ + 1,
     !.state = IF o.exit \/ (o.code # 0 /\ (t.errexit \/ o.seterr)) \/ t.ip = Len(lines)
               THEN "done" ELSE @,
     !.status = IF o.exit \/ (o.code # 0 /\ (t.errexit \/ o.seterr)) \/ t.ip = Len(lines)
                THEN <<o.code>> ELSE @]

(***************************************************************************)
(* main                                                                    *)
(***************************************************************************)
\* build_pipeline with the cleanup put before the conversion
build_pipeline_remove_early(a) ==
  <<"Mention">>
    \o (IF a.rename THEN <<"IC6kToCV7k">> ELSE <<>>)
    \o (IF a.from_pattern # "" THEN <<"Rename">> ELSE <<>>)
    \o (IF ~a.keep THEN <<"Remove">> ELSE <<>>)
    \o (IF a.convert THEN <<"TiffToPng">> ELSE IF a.rename THEN <<"NewName">> ELSE <<>>)

build_pipeline(a) ==
  <<"Mention">>
    \o (IF a.rename THEN <<"IC6kToCV7k">> ELSE <<>>)
    \o (IF a.from_pattern # "" THEN <<"Rename">> ELSE <<>>)
    \o (IF a.convert THEN <<"TiffToPng">> ELSE IF a.rename THEN <<"NewName">> ELSE <<>>)
    \o (IF ~a.keep THEN <<"Remove">> ELSE <<>>)

\* the accept loop with `continue` in the place of `break`: a rejecting action
\* is passed over
RECURSIVE accept_chain_continue(_, _, _, _, _, _)
accept_chain_continue(acts, opts, k, filename, state, calls) ==
  IF k > Len(acts)
  THEN [res |-> "ok", filename |-> filename, state |-> state, calls |-> calls, msg |-> ""]
  ELSE With(accept(acts[k], opts, filename),
            LAMBDA r :
              IF r.res = "ok"
              THEN accept_chain_continue(acts, opts, k + 1, r.new, r.params @@ state,
                                         Append(calls, [action |-> acts[k], res |-> r.res,
                                                        new |-> r.new]))
              ELSE IF r.res = "Reject"
              THEN accept_chain_continue(acts, opts, k + 1, filename, state,
                                         Append(calls, [action |-> acts[k], res |-> r.res,
                                                        new |-> r.new]))
              ELSE [res |-> r.res, filename |-> filename, state |-> state,
                    calls |-> Append(calls, [action |-> acts[k], res |-> r.res,
                                             new |-> r.new]),
                    msg |-> r.msg])

\* the accept loop of do_actions for one file: the first Reject ends it
RECURSIVE accept_chain(_, _, _, _, _, _)
accept_chain(acts, opts, k, filename, state, calls) ==
  IF k > Len(acts)
  THEN [res |-> "ok", filename |-> filename, state |-> state, calls |-> calls, msg |-> ""]
  ELSE With(accept(acts[k], opts, filename),
            LAMBDA r :
              IF r.res = "ok"
              THEN accept_chain(acts, opts, k + 1, r.new, r.params @@ state,
                                Append(calls, [action |-> acts[k], res |-> r.res,
                                               new |-> r.new]))
              ELSE [res |-> r.res, filename |-> filename, state |-> state,
                    calls |-> Append(calls, [action |-> acts[k], res |-> r.res,
                                             new |-> r.new]),
                    msg |-> r.msg])

RECURSIVE process_all(_, _, _, _)
process_all(acts, k, fmts, state) ==
  IF k > Len(acts) THEN fmts
  ELSE process_all(acts, k + 1, process(acts[k], fmts, state), state)

\* the command string of one file of to_do
command(acts, state) ==
  With(process_all(acts, 1, <<>>, state),
       LAMBDA fmts : join("\n", [k \in 1..Len(fmts) |-> format(fmts[k], state)]))

\* the orders in which a dict may hand out its keys
Orders(S) == {o \in [1..Cardinality(S) -> S] : \A i, j \in 1..Cardinality(S) : o[i] = o[j] => i = j}

VARIABLES
  pc,         \* where the program is
  args,       \* the argparse namespace
  actions,    \* the pipeline, a list of action classes
  inbox,      \* do_actions: the paths found
  ignored,    \* do_actions: the files rejected
  to_do,      \* do_actions: path -> state of the files accepted
  calls,      \* per file examined, its path and the accept calls made for it
  summary,    \* the line "Examined ... files" as printed, at most once
  cmds,       \* the command strings handed to run, or to submit_to_slurm
  printed,    \* run: the commands printed
  executed,   \* run: per check_call, the command string and its exit statuses
  done,       \* run: counter
  errored,    \* run: counter
  report,     \* the line "Successfully applied ..." as printed, at most once
  size,       \* submit_to_slurm: its size argument
  jobdir,     \* submit_to_slurm: whether mkdtemp made the job directory
  scripts,    \* submit_to_slurm: the batch scripts written
  n,          \* submit_to_slurm: the loop variable, <<>> while unbound
  wrapper,    \* submit_to_slurm: whether the wrapper script is written
  sbatch,     \* the sbatch invocations: array range and exit status
  exit_code,  \* <<>> while running, then the exit status of the process
  stderr,     \* the message of the error that ended the run
  input,      \* Rename(opts).accept(filename) called on its own: the file name
  output,     \* ... and what it returned or raised, <<>> before the call
  tasks,      \* the array job: per array index, the /bin/sh that runs its script
  removed     \* the paths removed by the tasks, and the index of the task that did

vars == <<pc, args, actions, inbox, ignored, to_do, calls, summary, cmds, printed,
          executed, done, errored, report, size, jobdir, scripts, n, wrapper, sbatch,
          exit_code, stderr, input, output, tasks, removed>>

do_vars == <<inbox, ignored, to_do, calls, summary, input, output>>
run_vars == <<printed, executed, done, errored, report>>
slurm_vars == <<size, jobdir, scripts, n, wrapper, sbatch>>
job_vars == <<tasks, removed>>

Namespaces ==
  {[path |-> p, batch |-> b, batch_size |-> bs, check |-> c, convert |-> cv,
    from_pattern |-> pat[1], keep |-> k, rename |-> rn, to_pattern |-> pat[2]] :
     p \in PathLists, b \in BOOLEAN, bs \in {MaxBatchSize, DefaultBatchSize},
     c \in BOOLEAN, cv \in BOOLEAN, pat \in PatternArgs, k \in BOOLEAN, rn \in BOOLEAN}

NoArgs == [path |-> <<>>, batch |-> FALSE, batch_size |-> DefaultBatchSize, check |-> FALSE,
           convert |-> FALSE, from_pattern |-> "", keep |-> FALSE, rename |-> FALSE,
           to_pattern |-> ""]

InitRest ==
  /\ actions = <<>>
  /\ inbox = <<>> /\ ignored = 0 /\ to_do = EmptyMap /\ calls = <<>> /\ summary = <<>>
  /\ printed = <<>> /\ executed = <<>> /\ done = 0 /\ errored = 0 /\ report = <<>>
  /\ jobdir = FALSE /\ scripts = <<>> /\ n = <<>> /\ wrapper = FALSE /\ sbatch = <<>>
  /\ exit_code = <<>> /\ stderr = ""
  /\ tasks = <<>> /\ removed = {}

NoCall == input = "" /\ output = <<>>

\* main(argv), argv read by argparse; --batch-size matters with --batch only
Init ==
  /\ pc = "parse_command_line"
  /\ args \in {a \in Namespaces : ~a.batch => a.batch_size = DefaultBatchSize}
  /\ cmds = <<>> /\ size = 0
  /\ InitRest /\ NoCall

Exit(code, msg) == pc' = "exit" /\ exit_code' = <<code>> /\ stderr' = msg

ParseCommandLine ==
  /\ pc = "parse_command_line"
  /\ LET a == IF args.path[1] = "convert"
              THEN [args EXCEPT !.convert = TRUE, !.path = Tail(@)]
              ELSE IF args.path[1] = "rename"
              THEN [args EXCEPT !.rename = TRUE, !.path = Tail(@)]
              ELSE args
     IN /\ args' = a
        /\ IF ~(a.convert \/ a.rename)
           THEN Exit(2, "At least one of options --convert or --rename should be given.")
           ELSE IF xor(a.from_pattern, a.to_pattern)
           THEN Exit(2, "If one of options --from-pattern or --to-pattern is given,"
                          \o " then the other must be given as well.")
           ELSE pc' = "build_pipeline" /\ UNCHANGED <<exit_code, stderr>>
  /\ UNCHANGED <<actions, cmds>>
  /\ UNCHANGED <<do_vars, run_vars, slurm_vars>>
  /\ UNCHANGED job_vars

BuildPipeline ==
  /\ pc = "build_pipeline"
  /\ IF args.from_pattern # "" /\ ~Rename_init_ok(args)
     THEN /\ Exit(1, "The patterns provided to --from-pattern and --to-pattern"
                       \o " do not contain the same number of * wildcard characters.")
          /\ UNCHANGED actions
     ELSE /\ actions' = build_pipeline(args)
          /\ pc' = "do_actions"
          /\ UNCHANGED <<exit_code, stderr>>
  /\ UNCHANGED <<args, cmds>>
  /\ UNCHANGED <<do_vars, run_vars, slurm_vars>>
  /\ UNCHANGED job_vars

BuildPathList ==
  /\ pc = "do_actions"
  /\ inbox' = build_path_list(args.path)
  /\ pc' = "accept"
  /\ UNCHANGED <<args, actions, cmds, ignored, to_do, calls, summary, exit_code, stderr>>
  /\ UNCHANGED <<run_vars, slurm_vars, input, output>>
  /\ UNCHANGED job_vars

\* one turn of the loop over inbox
AcceptFile ==
  /\ pc = "accept"
  /\ Len(calls) < Len(inbox)
  /\ LET path == inbox[Len(calls) + 1]
         state == [old |-> basename(path), check |-> args.check, keep |-> args.keep]
     IN \E r \in {accept_chain(actions, args, 1, basename(path), state, <<>>)} :
        /\ calls' = Append(calls, [path |-> path, calls |-> r.calls, res |-> r.res,
                                    msg |-> r.msg])
        /\ CASE r.res = "ok" ->
                  /\ to_do' = (path :> (("new" :> r.filename) @@ r.state)) @@ to_do
                  /\ UNCHANGED <<ignored, pc, exit_code, stderr>>
             [] r.res = "Reject" ->
                  /\ ignored' = ignored + 1
                  /\ UNCHANGED <<to_do, pc, exit_code, stderr>>
             [] OTHER ->
                  /\ Exit(1, r.msg)
                  /\ UNCHANGED <<to_do, ignored>>
  /\ UNCHANGED <<args, actions, cmds, inbox, summary, input, output>>
  /\ UNCHANGED <<run_vars, slurm_vars>>
  /\ UNCHANGED job_vars

PrintSummary ==
  /\ pc = "accept"
  /\ Len(calls) = Len(inbox)
  /\ summary' = <<[total |-> Len(inbox), to_do |-> Cardinality(DOMAIN to_do),
                   ignored |-> ignored]>>
  /\ IF DOMAIN to_do # {}
     THEN pc' = "process" /\ UNCHANGED <<exit_code, stderr>>
     ELSE Exit(0, "")
  /\ UNCHANGED <<args, actions, cmds, inbox, ignored, to_do, calls, input, output>>
  /\ UNCHANGED <<run_vars, slurm_vars>>
  /\ UNCHANGED job_vars

\* the loop over to_do.iteritems()
BuildCommands ==
  /\ pc = "process"
  /\ \E order \in Orders(DOMAIN to_do) :
       cmds' = [k \in 1..Len(order) |-> command(actions, to_do[order[k]])]
  /\ pc' = "run"
  /\ UNCHANGED <<args, actions, exit_code, stderr>>
  /\ UNCHANGED <<do_vars, run_vars, slurm_vars>>
  /\ UNCHANGED job_vars

\* run(cmds, args.check, args.batch)
Run ==
  /\ pc = "run"
  /\ LET batch == IF args.batch THEN 1 ELSE 0
         mode == run_mode(args.check, batch)
     IN CASE mode = "print" ->
               /\ printed' = cmds
               /\ Exit(0, "")
               /\ UNCHANGED size
          [] mode = "submit" ->
               /\ size' = batch
               /\ pc' = "submit_to_slurm"
               /\ UNCHANGED <<printed, exit_code, stderr>>
          [] OTHER ->
               /\ pc' = "check_call"
               /\ UNCHANGED <<printed, size, exit_code, stderr>>
  /\ UNCHANGED <<args, actions, cmds, executed, done, errored, report>>
  /\ UNCHANGED <<jobdir, scripts, n, wrapper, sbatch>>
  /\ UNCHANGED do_vars
  /\ UNCHANGED job_vars

\* one turn of the loop of immediate mode
CheckCall ==
  /\ pc = "check_call"
  /\ Len(executed) < Len(cmds)
  /\ LET cmd == cmds[Len(executed) + 1]
     IN \E codes \in [1..Len(sh_commands(cmd)) -> {0, 1}] :
          /\ executed' = Append(executed, [cmd |-> cmd, codes |-> codes])
          /\ IF check_call_ok(codes)
             THEN done' = done + 1 /\ UNCHANGED errored
             ELSE errored' = errored + 1 /\ UNCHANGED done
  /\ UNCHANGED <<pc, args, actions, cmds, printed, report, exit_code, stderr>>
  /\ UNCHANGED <<do_vars, slurm_vars>>
  /\ UNCHANGED job_vars

PrintReport ==
  /\ pc = "check_call"
  /\ Len(executed) = Len(cmds)
  /\ report' = <<[done |-> done, errored |-> errored]>>
  /\ Exit(0, "")
  /\ UNCHANGED <<args, actions, cmds, printed, executed, done, errored>>
  /\ UNCHANGED <<do_vars, slurm_vars>>
  /\ UNCHANGED job_vars

\* submit_to_slurm: mkdtemp, then one turn of the loop over grouper(cmds, size)
WriteBatchScript ==
  /\ pc = "submit_to_slurm"
  /\ Len(scripts) < Len(grouper(cmds, size))
  /\ jobdir' = TRUE
  /\ n' = <<Len(scripts)>>
  /\ scripts' = Append(scripts, batch_script(Len(scripts), grouper(cmds, size)[Len(scripts) + 1]))
  /\ UNCHANGED <<pc, args, actions, cmds, size, wrapper, sbatch, exit_code, stderr>>
  /\ UNCHANGED <<do_vars, run_vars>>
  /\ UNCHANGED job_vars

WriteWrapper ==
  /\ pc = "submit_to_slurm"
  /\ Len(scripts) = Len(grouper(cmds, size))
  /\ jobdir' = TRUE
  /\ wrapper' = TRUE
  /\ pc' = "sbatch"
  /\ UNCHANGED <<args, actions, cmds, size, scripts, n, sbatch, exit_code, stderr>>
  /\ UNCHANGED <<do_vars, run_vars>>
  /\ UNCHANGED job_vars

\* call(['sbatch', '--array=0-{n}', script.name]): the status is not looked at.
\* sbatch reads the wrapper script when it is called and hands its text to the
\* scheduler; a job it accepted has one task for each index of the array.
Sbatch ==
  /\ pc = "sbatch"
  /\ IF n = <<>>
     THEN \* the exception leaves the with block, which deletes the wrapper
          /\ Exit(1, "UnboundLocalError: local variable 'n' referenced before assignment")
          /\ wrapper' = FALSE
          /\ UNCHANGED <<sbatch, tasks>>
     ELSE /\ \E rc \in {0, 1} :
               /\ sbatch' = Append(sbatch, [array |-> "0-" \o str(n[1]), rc |-> rc,
                                            script |-> wrapper])
               /\ tasks' = IF rc = 0 THEN [i \in 0..n[1] |-> new_task] ELSE tasks
          /\ pc' = "close_wrapper"
          /\ UNCHANGED <<wrapper, exit_code, stderr>>
  /\ UNCHANGED <<args, actions, cmds, size, jobdir, scripts, n, removed>>
  /\ UNCHANGED <<do_vars, run_vars>>

\* the end of the with block: the NamedTemporaryFile is closed, which deletes
\* the wrapper; submit_to_slurm, run, do_actions and main return
CloseWrapper ==
  /\ pc = "close_wrapper"
  /\ wrapper' = FALSE
  /\ Exit(0, "")
  /\ UNCHANGED <<args, actions, cmds, size, jobdir, scripts, n, sbatch>>
  /\ UNCHANGED <<do_vars, run_vars, job_vars>>

\* the batch scripts and the job directory on disk
script_files ==
  {scripts[k].path : k \in DOMAIN scripts} \ {r.path : r \in removed}
job_dirs == IF jobdir THEN {JobDir} \ {r.path : r \in removed} ELSE {}
empty_dirs == IF script_files = {} THEN job_dirs ELSE {}

\* the scheduler starts the task of one index: the wrapper script it was given
\* does exec /bin/sh {jobdir}/{prefix}"$SLURM_ARRAY_TASK_ID".sh, and the shell
\* opens the batch script
StartTask ==
  /\ \E i \in DOMAIN tasks :
       /\ tasks[i].state = "pending"
       /\ tasks' = [tasks EXCEPT
                      ![i] = IF sbatch[Len(sbatch)].script
                                /\ array_task_job(i) \in script_files
                             THEN [@ EXCEPT !.state = "running"]
                             ELSE [@ EXCEPT !.state = "done", !.status = <<127>>]]
  /\ UNCHANGED <<pc, args, actions, cmds, exit_code, stderr, removed>>
  /\ UNCHANGED <<do_vars, run_vars, slurm_vars>>

\* the shell of one task runs the line it is at
StepTask ==
  /\ \E i \in DOMAIN tasks :
       /\ tasks[i].state = "running"
       /\ \E lines \in {script_lines(scripts[CHOOSE k \in DOMAIN scripts :
                                               scripts[k].path = array_task_job(i)])} :
            \E o \in sh_run(lines[tasks[i].ip], script_files, job_dirs, empty_dirs) :
              /\ tasks' = [tasks EXCEPT ![i] = sh_step(@, lines, o)]
              /\ removed' = removed \cup {[path |-> q, by |-> i] : q \in o.rm}
  /\ UNCHANGED <<pc, args, actions, cmds, exit_code, stderr>>
  /\ UNCHANGED <<do_vars, run_vars, slurm_vars>>

SlurmNext == WriteBatchScript \/ WriteWrapper \/ Sbatch \/ CloseWrapper

Next ==
  \/ ParseCommandLine
  \/ BuildPipeline
  \/ BuildPathList
  \/ AcceptFile
  \/ PrintSummary
  \/ BuildCommands
  \/ Run
  \/ CheckCall
  \/ PrintReport
  \/ WriteBatchScript
  \/ WriteWrapper
  \/ Sbatch
  \/ CloseWrapper

Spec == Init /\ [][Next]_vars

\* main(argv) with --convert as the only feature, on TIFF files and others
ConvertPathArgs == {"a.tif", "b.txt", "c.png", "e.TIF", "f.tiff"}

InitConvert ==
  /\ pc = "parse_command_line"
  /\ args \in {[NoArgs EXCEPT !.path = p, !.convert = TRUE, !.batch = b, !.check = c,
                               !.keep = k] :
                 p \in SeqsUpTo(ConvertPathArgs, 1, MaxPaths),
                 b \in BOOLEAN, c \in BOOLEAN, k \in BOOLEAN}
  /\ cmds = <<>> /\ size = 0
  /\ InitRest /\ NoCall

SpecConvert == InitConvert /\ [][Next]_vars

\* main(argv) with every choice of the options that shape the pipeline, on a
\* TIFF file and an IC6000 file; the last pair of patterns gives the CV7000
\* name of GoodIC6000 its IC6000 name back
PipelinePathArgs == {"a.tif", GoodIC6000}
PipelinePatternArgs ==
  {<<"", "">>, <<"2018*C*", "s*c*">>, <<"a*", "b*">>,
   <<"*_G08_T0001F004L01A01Z01C04*", "*_G - 8(fld 4 wv Red - Cy5)*">>}

InitPipelines ==
  /\ pc = "parse_command_line"
  /\ args \in {[NoArgs EXCEPT !.path = p, !.convert = cv, !.rename = rn, !.keep = k,
                               !.from_pattern = pat[1], !.to_pattern = pat[2],
                               !.batch = b, !.check = c] :
                 p \in SeqsUpTo(PipelinePathArgs, 1, MaxPaths),
                 cv \in BOOLEAN, rn \in BOOLEAN, k \in BOOLEAN,
                 pat \in PipelinePatternArgs, b \in BOOLEAN, c \in BOOLEAN}
  /\ cmds = <<>> /\ size = 0
  /\ InitRest /\ NoCall

SpecPipelines == InitPipelines /\ [][Next]_vars

\* submit_to_slurm(cmds, size) called on its own
SlurmCommands == {"true", "false"}

InitSlurm ==
  /\ pc = "submit_to_slurm"
  /\ args = NoArgs
  /\ cmds \in SeqsUpTo(SlurmCommands, 0, MaxCmds)
  /\ size \in 1..MaxSize
  /\ InitRest /\ NoCall

SpecSlurm == InitSlurm /\ [][SlurmNext]_vars

\* submit_to_slurm(cmds, size) and the array job that it submits
JobNext == SlurmNext \/ StartTask \/ StepTask

SpecJob == InitSlurm /\ [][JobNext]_vars

\* Rename(opts).accept(filename) called on its own
RenamePatterns ==
  {<<"img_*_ch*", "sample_*_channel*">>, <<"2018*C*", "s*c*">>, <<"img_*", "pic_*">>,
   <<"*", "*">>, <<"*_*", "*-*">>, <<"img_*.tif", "pic_*.tif">>, <<"img_*_ch3", "s_*_c3">>,
   <<"a", "b">>, <<"img_*", "out">>,
   <<"img_*_ch*", "img_*_ch*">>, <<"img_*.tif", "img_*.tif">>, <<"img_*_ch3", "img_*_ch3">>}

RenameNames ==
  {basename(f) : f \in Files}
    \cup {"img_42_ch3.png", "img_7.tif", "img_7xtif", "img_1_ch2_ch3.tif", "a", "",
          "20180328_T_G08_T0001F004L01A01Z01C04.tif"}

InitRename ==
  /\ pc = "Rename"
  /\ \E pat \in RenamePatterns : args = [NoArgs EXCEPT !.from_pattern = pat[1],
                                                       !.to_pattern = pat[2]]
  /\ input \in RenameNames
  /\ output = <<>>
  /\ cmds = <<>> /\ size = 0
  /\ InitRest

RenameAccept ==
  /\ pc = "Rename"
  /\ output' = <<IF Rename_init_ok(args) THEN Rename_accept(args, input)
                 ELSE Raise("RuntimeError",
                            "The patterns provided to --from-pattern and --to-pattern"
                              \o " do not contain the same number of * wildcard characters.")>>
  /\ pc' = "exit"
  /\ UNCHANGED <<args, actions, cmds, inbox, ignored, to_do, calls, summary, input,
                 exit_code, stderr>>
  /\ UNCHANGED <<run_vars, slurm_vars>>
  /\ UNCHANGED job_vars

SpecRename == InitRename /\ [][RenameAccept]_vars

(***************************************************************************)
(* Properties                                                              *)
(***************************************************************************)
CeilDiv(a, b) == (a + b - 1) \div b

\* sub occurs in s
Contains(s, sub) == \E i \in 1..(Len(s) - Len(sub) + 1) : SubSeq(s, i, i + Len(sub) - 1) = sub

\* the commands of scripts k, k+1, ... one after the other
RECURSIVE all_cmds_from(_, _)
all_cmds_from(ss, k) == IF k > Len(ss) THEN <<>> ELSE ss[k].cmds \o all_cmds_from(ss, k + 1)

\* C1: in batched mode the commands of the accepted files are grouped by
\* --batch-size: ceil(M/S) batch scripts are written, none holds more than S
\* commands, and sbatch is given --array=0-(ceil(M/S)-1).
C1_BatchesOfBatchSize ==
  (pc = "exit" /\ sbatch # <<>>) =>
    /\ Len(scripts) = CeilDiv(Len(cmds), args.batch_size)
    /\ \A k \in DOMAIN scripts : Len(scripts[k].cmds) <= args.batch_size
    /\ sbatch[1].array = "0-" \o str(CeilDiv(Len(cmds), args.batch_size) - 1)

\* C2: once the loop of submit_to_slurm(cmds, size) is over, ceil(M/size)
\* scripts numbered 0, 1, ... are written, and their commands read one script
\* after the other are cmds itself: each command in one script, in the
\* original order, and no padding written.
C2_ScriptsPartitionCmds ==
  pc \in {"sbatch", "close_wrapper", "exit"} =>
    /\ Len(scripts) = CeilDiv(Len(cmds), size)
    /\ \A k \in DOMAIN scripts : scripts[k].path = array_task_job(k - 1)
    /\ all_cmds_from(scripts, 1) = cmds

\* four commands in batches of three: the second batch is padded
C2_Witness ==
  /\ pc = "exit" /\ sbatch # <<>>
  /\ Len(cmds) = 4 /\ size = 3
  /\ Len(scripts) = 2 /\ Len(scripts[2].cmds) = 1

\* C3: the counts of the line "Examined ... files" add up: to_do + ignored
\* is the number of files examined.
C3_CountsAddUp ==
  summary # <<>> => summary[1].to_do + summary[1].ignored = summary[1].total

\* C4: in immediate mode the report counts as errored the files of which a
\* command exited non-zero, and as done the files all of whose commands
\* exited zero; the commands of every file are run.
C4_TallyPerFile ==
  report # <<>> =>
    /\ Len(executed) = Len(cmds)
    /\ report[1].errored =
         Cardinality({k \in DOMAIN executed :
                        \E j \in DOMAIN executed[k].codes : executed[k].codes[j] # 0})
    /\ report[1].done =
         Cardinality({k \in DOMAIN executed :
                        \A j \in DOMAIN executed[k].codes : executed[k].codes[j] = 0})

\* C5: a run in which sbatch exited non-zero does not end with exit code 0.
C5_FailedSubmissionIsFatal ==
  (pc = "exit" /\ \E k \in DOMAIN sbatch : sbatch[k].rc # 0) => exit_code # <<0>>

\* the modes of run() that have had an effect
ModesInEffect ==
  (IF printed # <<>> THEN {"print"} ELSE {})
    \cup (IF jobdir \/ scripts # <<>> \/ wrapper \/ sbatch # <<>> THEN {"submit"} ELSE {})
    \cup (IF executed # <<>> \/ report # <<>> THEN {"execute"} ELSE {})

\* C6: with --check and --batch together the commands are printed only: no
\* job directory, no script, no sbatch, no command run; and in every run at
\* most one of printing, submitting and executing takes effect.
C6_DryRunPrecedence ==
  /\ (args.check /\ args.batch) =>
       /\ ~jobdir /\ scripts = <<>> /\ ~wrapper /\ sbatch = <<>>
       /\ executed = <<>> /\ report = <<>>
       /\ (pc = "exit" /\ cmds # <<>>) => printed = cmds
  /\ Cardinality(ModesInEffect) <= 1

C6_Witness ==
  pc = "exit" /\ args.check /\ args.batch /\ printed # <<>> /\ printed = cmds

\* the match has the IC6000 shape and a channel tag that is not in the table
UnknownTag(m) == m.ok /\ m.caps["channel_tag"] \notin DOMAIN ic6000_channels

\* C7: with --rename, a file of the IC6000 shape with an unknown channel tag
\* ends the run: its accept raised an error that is not Reject, it is not
\* counted as ignored, the run exits non-zero with a message naming the file
\* and the tag, and no command of any file is built, printed, run or
\* submitted.
C7_UnknownTagIsFatal ==
  args.rename =>
    \A k \in DOMAIN calls :
      \E name \in {basename(calls[k].path)} :
        \E m \in {re_match(ic6000_pattern, name)} :
          UnknownTag(m) =>
            /\ calls[k].res = "RuntimeError"
            /\ k = Len(calls)
            /\ pc = "exit" /\ exit_code = <<1>>
            /\ Contains(stderr, name)
            /\ \E tag \in {m.caps["channel_tag"]} : Contains(stderr, tag)
            /\ ignored = Cardinality({j \in DOMAIN calls : calls[j].res = "Reject"})
            /\ summary = <<>> /\ cmds = <<>>
            /\ printed = <<>> /\ executed = <<>> /\ scripts = <<>> /\ sbatch = <<>>

\* the offending file comes after a file that was accepted
C7_Witness ==
  /\ pc = "exit" /\ args.rename
  /\ Len(calls) = 2 /\ calls[2].res = "RuntimeError"
  /\ \E m \in {re_match(ic6000_pattern, basename(calls[2].path))} : UnknownTag(m)
  /\ calls[1].res = "ok" /\ DOMAIN to_do # {}
  /\ exit_code = <<1>>

\* the accept calls of the k-th file examined follow the pipeline, and none
\* follows a call that raised
CallsStopAtReject(k) ==
  /\ Len(calls[k].calls) \in 1..Len(actions)
  /\ \A i \in DOMAIN calls[k].calls :
       /\ calls[k].calls[i].action = actions[i]
       /\ i < Len(calls[k].calls) => calls[k].calls[i].res = "ok"
  /\ calls[k].res = calls[k].calls[Len(calls[k].calls)].res
  /\ calls[k].res = "ok" => Len(calls[k].calls) = Len(actions)

\* the line that one action gives to a command, if it gives one
LineOf(action, old, new) ==
  CASE action = "Mention" -> <<"# '" \o old \o "' -> '" \o new \o "'">>
    [] action = "TiffToPng" ->
         <<"convert -depth 16 -colorspace gray '" \o old \o "' '" \o new \o "'">>
    [] action = "NewName" ->
         IF old # new THEN <<"ln -f '" \o old \o "' '" \o new \o "'">> ELSE <<>>
    [] action = "Remove" -> IF ~args.keep THEN <<"rm -f '" \o old \o "'">> ELSE <<>>
    [] OTHER -> <<>>

RECURSIVE LinesFrom(_, _, _)
LinesFrom(i, old, new) ==
  IF i > Len(actions) THEN <<>> ELSE LineOf(actions[i], old, new) \o LinesFrom(i + 1, old, new)

\* the full command sequence of an accepted path: old is its base name, new
\* the name that the last accept returned
FullCommand(path) ==
  With(CHOOSE k \in DOMAIN calls : calls[k].path = path /\ calls[k].res = "ok",
       LAMBDA k : join("\n", LinesFrom(1, basename(path), calls[k].calls[Len(actions)].new)))

\* C8: for every file examined the accept calls stop at the first Reject,
\* and a rejected file gives no command; every other file gives one command
\* sequence, the lines of all the actions in pipeline order, written with
\* old = the base name and new = the name the last accept returned.
C8_AllOrNothing ==
  /\ \A k \in DOMAIN calls : CallsStopAtReject(k)
  /\ DOMAIN to_do = {calls[k].path : k \in {j \in DOMAIN calls : calls[j].res = "ok"}}
  /\ cmds # <<>> =>
       \E order \in Orders(DOMAIN to_do) :
         cmds = [k \in 1..Len(order) |-> FullCommand(order[k])]

\* one file rejected by an action that is not the first, one file accepted
C8_Witness ==
  /\ cmds # <<>>
  /\ \E k \in DOMAIN calls : calls[k].res = "Reject" /\ Len(calls[k].calls) >= 2
                               /\ Len(calls[k].calls) < Len(actions)
  /\ \E k \in DOMAIN calls : calls[k].res = "ok"

\* the place of an action class in the order annotate, vendor rename, user
\* rename, conversion or link, cleanup
Rank(action) ==
  CASE action = "Mention" -> 0
    [] action = "IC6kToCV7k" -> 1
    [] action = "Rename" -> 2
    [] action \in {"TiffToPng", "NewName"} -> 3
    [] action = "Remove" -> 4

\* C9: the pipeline has Mention first, IC6kToCV7k before Rename, both before
\* TiffToPng or NewName, and Remove last.
C9_PipelineOrder ==
  actions # <<>> =>
    /\ actions[1] = "Mention"
    /\ \A i, j \in DOMAIN actions : i < j => Rank(actions[i]) < Rank(actions[j])
    /\ \A i \in DOMAIN actions : actions[i] = "Remove" => i = Len(actions)

C9_Witness ==
  actions = <<"Mention", "IC6kToCV7k", "Rename", "TiffToPng", "Remove">>

\* C10: Rename.accept with the patterns img_*_ch* and sample_*_channel* on
\* img_42_ch3.tif returns sample_42_channel3.tif and the parameters
\* wildcard0 = "42", wildcard1 = "3".
C10_ScenarioCaptures ==
  (/\ output # <<>>
   /\ args.from_pattern = "img_*_ch*" /\ args.to_pattern = "sample_*_channel*"
   /\ input = "img_42_ch3.tif") =>
    /\ output[1].res = "ok"
    /\ output[1].new = "sample_42_channel3.tif"
    /\ output[1].params = ("wildcard0" :> "42") @@ ("wildcard1" :> "3")

\* C11: a name that Rename's matcher accepts comes back from the formatter
\* filled with the captured groups, read in its narrowest sense: the matcher
\* and the formatter are made from the same glob pattern.
C11_RoundTrip ==
  (/\ output # <<>>
   /\ args.to_pattern = args.from_pattern
   /\ output[1].res = "ok") =>
    output[1].new = input

\* the command sequence of a TIFF file under --convert alone
ConvertCommand(old, new) ==
  "# '" \o old \o "' -> '" \o new \o "'\n"
    \o "convert -depth 16 -colorspace gray '" \o old \o "' '" \o new \o "'"
    \o (IF ~args.keep THEN "\nrm -f '" \o old \o "'" ELSE "")

\* C12: with --convert alone a file is accepted exactly when its extension is
\* .tif or .tiff in any case, and is otherwise rejected by TiffToPng with the
\* reason "not a TIFF file"; stem.tif goes to stem.png with the commands
\* comment, convert, and rm -f exactly without --keep; a.tif and b.txt are
\* summed up as 1 to convert, 1 ignored.
C12_ConvertOnly ==
  (args.convert /\ ~args.rename /\ args.from_pattern = "") =>
    /\ \A k \in DOMAIN calls :
         \E se \in {splitext(basename(calls[k].path))} :
           IF lower(se[2]) \in {".tif", ".tiff"}
           THEN /\ calls[k].res = "ok"
                /\ to_do[calls[k].path]["new"] = se[1] \o ".png"
           ELSE /\ calls[k].res = "Reject"
                /\ calls[k].msg = "not a TIFF file"
                /\ calls[k].calls[Len(calls[k].calls)].action = "TiffToPng"
                /\ calls[k].path \notin DOMAIN to_do
    /\ cmds # <<>> =>
         /\ Len(cmds) = Cardinality(DOMAIN to_do)
         /\ \A p \in DOMAIN to_do :
              \E old \in {basename(p)} :
                \E k \in DOMAIN cmds :
                  cmds[k] = ConvertCommand(old, splitext(old)[1] \o ".png")
    /\ (args.path = <<"a.tif", "b.txt">> /\ summary # <<>>) =>
         summary[1] = [total |-> 2, to_do |-> 1, ignored |-> 1]

\* a.tif and b.txt, without --keep
C12_Witness ==
  /\ args.convert /\ ~args.rename /\ ~args.keep /\ args.path = <<"a.tif", "b.txt">>
  /\ calls # <<>> /\ calls[Len(calls)].msg = "not a TIFF file"
  /\ summary = <<[total |-> 2, to_do |-> 1, ignored |-> 1]>>
  /\ cmds = <<"# 'a.tif' -> 'a.png'\n"
                \o "convert -depth 16 -colorspace gray 'a.tif' 'a.png'\n"
                \o "rm -f 'a.tif'">>

Min(a, b) == IF a <= b THEN a ELSE b

\* the commands of cmds that belong to the batch of array index i
Batch(i) == SubSeq(cmds, i * size + 1, Min((i + 1) * size, Len(cmds)))

\* the commands of cmds that task i has run, with their exit statuses
UserRan(i) == SelectSeq(tasks[i].ran, LAMBDA e : e.line \in SlurmCommands)

\* task i has run every command of its batch, and each exited zero
BatchSucceeded(i) ==
  UserRan(i) = [j \in 1..Len(Batch(i)) |-> [line |-> Batch(i)[j], code |-> 0]]

\* C13: once every task of the array job is over and every command of every
\* batch has succeeded, each batch script has been removed by its own task
\* and the job directory has been removed.
C13_JobCleansUp ==
  (/\ tasks # <<>>
   /\ \A i \in DOMAIN tasks : tasks[i].state = "done" /\ BatchSucceeded(i)) =>
    /\ \A i \in DOMAIN tasks : [path |-> array_task_job(i), by |-> i] \in removed
    /\ script_files = {}
    /\ job_dirs = {}

\* every batch script is written, each as submit_to_slurm writes it
ScriptsComplete ==
  \E batches \in {grouper(cmds, size)} :
    /\ Len(scripts) = Len(batches)
    /\ \A k \in DOMAIN scripts : scripts[k] = batch_script(k - 1, batches[k])

\* C14: when sbatch is called the batch scripts and the wrapper are written;
\* sbatch was given a written wrapper; and while a task is not over, the job
\* directory is there and its script has been removed by no other task (a
\* task that has not started finds its script).
C14_NoEarlyDeletion ==
  /\ (pc = "sbatch" \/ sbatch # <<>>) => ScriptsComplete
  /\ pc = "sbatch" => wrapper
  /\ \A k \in DOMAIN sbatch : sbatch[k].script
  /\ \A i \in DOMAIN tasks :
       /\ tasks[i].status # <<127>>
       /\ tasks[i].state = "pending" => array_task_job(i) \in script_files
       /\ tasks[i].state # "done" =>
            /\ JobDir \in job_dirs
            /\ \A r \in removed : r.path = array_task_job(i) => r.by = i

\* the driver has deleted the wrapper and left; one task is over and has
\* removed its script, one is running, one has not started
C14_Witness ==
  /\ pc = "exit" /\ ~wrapper
  /\ \E i, j, k \in DOMAIN tasks :
       /\ tasks[i].state = "done" /\ [path |-> array_task_job(i), by |-> i] \in removed
       /\ tasks[j].state = "running" /\ tasks[j].ran # <<>>
       /\ tasks[k].state = "pending"

\* C15: a task runs the commands of its own batch only, in order; no command
\* is run after one that exited non-zero, and the task then exits non-zero;
\* when every command of the batch succeeds the task reaches exit 0 and
\* exits with status 0.
C15_FailFastTask ==
  \A i \in DOMAIN tasks :
    \E ur \in {UserRan(i)} :
      \E b \in {Batch(i)} :
        /\ Len(ur) <= Len(b)
        /\ \A j \in DOMAIN ur : ur[j].line = b[j]
        /\ \A j \in DOMAIN ur : ur[j].code # 0 => j = Len(ur)
        /\ tasks[i].state = "done" =>
             IF \E j \in DOMAIN ur : ur[j].code # 0
             THEN tasks[i].status # <<0>>
             ELSE /\ Len(ur) = Len(b)
                  /\ tasks[i].ran[Len(tasks[i].ran)].line = "exit 0"
                  /\ tasks[i].status = <<0>>

\* C16: in the command sequence of a file, a removal rm -f of the original
\* comes after a command that makes the new file from it, the convert
\* invocation or ln -f.
C16_RemovalFollowsProduct ==
  \A k \in DOMAIN cmds :
    \E lines \in {sh_commands(cmds[k])} :
      \A j \in DOMAIN lines :
        StartsWith(lines[j], "rm -f ") =>
          \E i \in 1..(j - 1) :
            StartsWith(lines[i], "convert ") \/ StartsWith(lines[i], "ln -f ")

\* C17: in immediate mode the removal rm -f of a file's original is run only
\* if every command before it in the file's sequence exited zero.
C17_RemovalAfterSuccess ==
  \A k \in DOMAIN executed :
    \E lines \in {sh_commands(executed[k].cmd)} :
      \A j \in DOMAIN executed[k].codes :
        StartsWith(lines[j], "rm -f ") =>
          \A i \in 1..(j - 1) : executed[k].codes[i] = 0
====
